---- MODULE Spec2Model ----
(***************************************************************************)
(* Model of search_terms (serve.py), the dictionary search of the TBD      *)
(* dictionary application: exact, partial and fuzzy look-up over an        *)
(* ordered list of {en, tr} term records.                                  *)
(*                                                                         *)
(* Strings are sequences of one-character strings.  A result is a record   *)
(* [term, score]; the Optional[float] score is <<>> for None and <<v>> for *)
(* the float v.  Floats are exact integers in units of 1/ScoreScale of a   *)
(* point, so that the scorer's quotients are represented without rounding. *)
(***************************************************************************)
EXTENDS Integers, Sequences, FiniteSets

\* ------------------------------------------------------------ bounds ----
\* longest term collection drawn
MaxTerms == 3
\* largest limit drawn (limit is a positive integer)
MaxLimit == 4

\* 1 point = ScoreScale units: every ratio of two words of at most three
\* characters, and its 0.9 / 0.95 scalings, is a whole number of units.
ScoreScale == 60 * 200

\* ------------------------------------------------------------ inputs ----
w_ab  == <<"a", "b">>
w_AB  == <<"A", "B">>
w_ba  == <<"b", "a">>
w_b   == <<"b">>
w_abb == <<"a", "b", "b">>

\* the records the collections are drawn from (both fields non-empty)
TermPool ==
    { [en |-> w_ab,  tr |-> w_ba],
      [en |-> w_ba,  tr |-> w_b],
      [en |-> w_abb, tr |-> w_AB],
      [en |-> w_ba,  tr |-> w_ab] }

RECURSIVE SeqsUpTo(_, _)
SeqsUpTo(S, n) ==
    IF n = 0 THEN { <<>> }
    ELSE LET shorter == SeqsUpTo(S, n - 1)
         IN  shorter \cup { Append(s, x) : s \in shorter, x \in S }

Collections == SeqsUpTo(TermPool, MaxTerms)
Queries     == { <<>>, w_ab, w_AB, w_b }
Modes       == { "exact", "partial", "fuzzy" }
Langs       == { "en", "tr", "both" }
\* values the str-typed parameters can also carry
ModeValues  == Modes \cup { "regex" }
LangValues  == Langs \cup { "de" }
Limits      == 1 .. MaxLimit
MinScores   == { 0, 60 * ScoreScale, 100 * ScoreScale }

\* ------------------------------------------------- string operations ----
\* str.lower() on one character
LowerChar(c) ==
    CASE c = "A" -> "a"
      [] c = "B" -> "b"
      [] OTHER   -> c

\* str.lower()
lower(s) == [i \in 1 .. Len(s) |-> LowerChar(s[i])]

\* `sub in s` on strings
Contains(sub, s) ==
    \E i \in 0 .. (Len(s) - Len(sub)) : SubSeq(s, i + 1, i + Len(sub)) = sub

\* variant: the empty query is not caught
IsFalsyNever(query) == FALSE

\* truthiness of a str: `not query`
IsFalsy(query) == query = <<>>

\* variant: an unknown mode falls back to the fuzzy branch
BranchFuzzyDefault(query, mode) ==
    IF IsFalsy(query) THEN "empty"
    ELSE IF mode = "exact" THEN "exact"
    ELSE IF mode = "partial" THEN "partial"
    ELSE "fuzzy"

\* the branch a call takes: `if not query: return []`, then the
\* if / elif / elif on mode; "none" when no branch is taken
Branch(query, mode) ==
    IF IsFalsy(query) THEN "empty"
    ELSE IF mode = "exact" THEN "exact"
    ELSE IF mode = "partial" THEN "partial"
    ELSE IF mode = "fuzzy" THEN "fuzzy"
    ELSE "none"

Max(x, y) == IF x >= y THEN x ELSE y

\* --------------------------------------------------- exact / partial ----
\* variant: the exact test ignores the language scope
ExactMatchAnyField(term, query_lower, lang) ==
    \/ lower(term.en) = query_lower
    \/ lower(term.tr) = query_lower

\* the if / elif of the exact loop: does `term` match `query_lower`
ExactMatch(term, query_lower, lang) ==
    \/ lang \in {"en", "both"} /\ lower(term.en) = query_lower
    \/ lang \in {"tr", "both"} /\ lower(term.tr) = query_lower

\* variant: the operands of `in` are swapped
PartialMatchSwapped(term, query_lower, lang) ==
    \/ lang \in {"en", "both"} /\ Contains(lower(term.en), query_lower)
    \/ lang \in {"tr", "both"} /\ Contains(lower(term.tr), query_lower)

\* the if / elif of the partial loop
PartialMatch(term, query_lower, lang) ==
    \/ lang \in {"en", "both"} /\ Contains(query_lower, lower(term.en))
    \/ lang \in {"tr", "both"} /\ Contains(query_lower, lower(term.tr))

\* variant: the limit test of the loops is off by one
LimitReachedLate(results, limit) == Len(results) > limit

\* `if len(results) >= limit: break`
LimitReached(results, limit) == Len(results) >= limit

\* `for term in terms:` of the exact branch, from the i-th record on;
\* yields the results and the number of records the loop has visited
RECURSIVE ExactScan(_, _, _, _, _, _)
ExactScan(terms, query_lower, lang, limit, i, results) ==
    IF i > Len(terms) THEN [results |-> results, scanned |-> i - 1]
    ELSE LET term == terms[i]
             r    == IF ExactMatch(term, query_lower, lang)
                     THEN Append(results, [term |-> term, score |-> <<100 * ScoreScale>>])
                     ELSE results
         IN  IF LimitReached(r, limit)
             THEN [results |-> r, scanned |-> i]
             ELSE ExactScan(terms, query_lower, lang, limit, i + 1, r)

\* variant: two independent ifs instead of if / elif
RECURSIVE PartialScanTwoIfs(_, _, _, _, _, _)
PartialScanTwoIfs(terms, query_lower, lang, limit, i, results) ==
    IF i > Len(terms) THEN [results |-> results, scanned |-> i - 1]
    ELSE LET term == terms[i]
             r1   == IF lang \in {"en", "both"} /\ Contains(query_lower, lower(term.en))
                     THEN Append(results, [term |-> term, score |-> <<>>])
                     ELSE results
             r    == IF lang \in {"tr", "both"} /\ Contains(query_lower, lower(term.tr))
                     THEN Append(r1, [term |-> term, score |-> <<>>])
                     ELSE r1
         IN  IF LimitReached(r, limit)
             THEN [results |-> r, scanned |-> i]
             ELSE PartialScanTwoIfs(terms, query_lower, lang, limit, i + 1, r)

\* `for term in terms:` of the partial branch
RECURSIVE PartialScan(_, _, _, _, _, _)
PartialScan(terms, query_lower, lang, limit, i, results) ==
    IF i > Len(terms) THEN [results |-> results, scanned |-> i - 1]
    ELSE LET term == terms[i]
             r    == IF PartialMatch(term, query_lower, lang)
                     THEN Append(results, [term |-> term, score |-> <<>>])
                     ELSE results
         IN  IF LimitReached(r, limit)
             THEN [results |-> r, scanned |-> i]
             ELSE PartialScan(terms, query_lower, lang, limit, i + 1, r)

\* ------------------------------------------------------ fuzz.WRatio ----
\* length of the longest common subsequence of s1[1..i] and s2[1..j]
RECURSIVE LCS(_, _, _, _)
LCS(s1, s2, i, j) ==
    IF i = 0 \/ j = 0 THEN 0
    ELSE IF s1[i] = s2[j] THEN 1 + LCS(s1, s2, i - 1, j - 1)
    ELSE Max(LCS(s1, s2, i - 1, j), LCS(s1, s2, i, j - 1))

\* fuzz.ratio: normalised Indel similarity, 100 * 2 * lcs / (len1 + len2);
\* the characters are compared as given (no processor is passed)
Ratio(s1, s2) ==
    IF Len(s1) + Len(s2) = 0 THEN 100 * ScoreScale
    ELSE (200 * ScoreScale * LCS(s1, s2, Len(s1), Len(s2))) \div (Len(s1) + Len(s2))

\* the windows of `long` fuzz.partial_ratio aligns a needle of length m with:
\* the prefixes shorter than m, the substrings of length m, the suffixes
PartialWindows(long, m) ==
    { SubSeq(long, 1, k) : k \in 1 .. (m - 1) }
        \cup { SubSeq(long, k, k + m - 1) : k \in 1 .. (Len(long) - m + 1) }
        \cup { SubSeq(long, k, Len(long)) : k \in (Len(long) - m + 1) .. Len(long) }

\* fuzz.partial_ratio: the best ratio of the shorter string against a window
PartialRatio(s1, s2) ==
    LET short  == IF Len(s1) <= Len(s2) THEN s1 ELSE s2
        long   == IF Len(s1) <= Len(s2) THEN s2 ELSE s1
        scores == { Ratio(short, w) : w \in PartialWindows(long, Len(short)) }
    IN  CHOOSE x \in scores : \A y \in scores : x >= y

\* fuzz.token_ratio and fuzz.partial_token_ratio on strings without
\* whitespace (one token each): the plain and the partial ratio
TokenRatio(s1, s2) == Ratio(s1, s2)
PartialTokenRatio(s1, s2) == IF s1 = s2 THEN 100 * ScoreScale ELSE PartialRatio(s1, s2)

\* fuzz.WRatio (UNBASE_SCALE 0.95; PARTIAL_SCALE 0.9, or 0.6 when the
\* lengths differ by more than a factor 8)
WRatio(s1, s2) ==
    IF Len(s1) = 0 \/ Len(s2) = 0 THEN 0
    ELSE LET len1      == Len(s1)
             len2      == Len(s2)
             longer    == Max(len1, len2)
             shorter   == IF len1 < len2 THEN len1 ELSE len2
             end_ratio == Ratio(s1, s2)
         IN  IF 2 * longer < 3 * shorter
             THEN Max(end_ratio, (TokenRatio(s1, s2) * 95) \div 100)
             ELSE LET scale   == IF longer <= 8 * shorter THEN 90 ELSE 60
                      partial == Max(end_ratio, (PartialRatio(s1, s2) * scale) \div 100)
                  IN  Max(partial,
                          ((((PartialTokenRatio(s1, s2) * 95) \div 100) * scale) \div 100))

\* ---------------------------------------------------- process.extract ----
\* variant: equal scores rank the later choice first
RanksBeforeLastWins(scores, i, j) ==
    \/ scores[i] > scores[j]
    \/ scores[i] = scores[j] /\ i >= j

\* does choice i rank before choice j: higher score first, equal scores in
\* the order of the choices
RanksBefore(scores, i, j) ==
    \/ scores[i] > scores[j]
    \/ scores[i] = scores[j] /\ i <= j

\* the `limit` best of the choices in `remaining`, best first,
\* as (score, index) pairs
RECURSIVE TopMatches(_, _, _)
TopMatches(scores, remaining, limit) ==
    IF limit <= 0 \/ remaining = {} THEN <<>>
    ELSE LET best == CHOOSE i \in remaining :
                        \A j \in remaining : RanksBefore(scores, i, j)
         IN  << [score |-> scores[best], idx |-> best] >>
                 \o TopMatches(scores, remaining \ {best}, limit - 1)

\* process.extract(query, choices, scorer=fuzz.WRatio, limit=limit)
Extract(query, choices, limit) ==
    LET scores == [i \in 1 .. Len(choices) |-> WRatio(query, choices[i])]
    IN  TopMatches(scores, 1 .. Len(choices), limit)

\* ------------------------------------------------------ fuzzy branch ----
\* variant: the split rounds up
BudgetRoundedUp(lang, pool, limit) == IF lang = pool THEN limit ELSE (limit + 1) \div 2

\* `limit if lang == "en" else limit // 2` (and the same for "tr")
Budget(lang, pool, limit) == IF lang = pool THEN limit ELSE limit \div 2

\* variant: a score equal to min_score is dropped
PassesMinScoreStrict(score, min_score) == score > min_score

\* `if score >= min_score:` of the two candidate loops
PassesMinScore(score, min_score) == score >= min_score

\* `for match_text, score, idx in matches: if score >= min_score:
\*      candidates.append((terms[idx][1], score))`
RECURSIVE Candidates(_, _, _, _)
Candidates(terms, matches, min_score, k) ==
    IF k > Len(matches) THEN <<>>
    ELSE (IF PassesMinScore(matches[k].score, min_score)
          THEN << [term |-> terms[matches[k].idx], score |-> matches[k].score] >>
          ELSE <<>>)
         \o Candidates(terms, matches, min_score, k + 1)

\* the (text, term) list of one language pool: `[(term["en"], term) ...]`
PoolChoices(terms, pool) ==
    [i \in 1 .. Len(terms) |-> IF pool = "en" THEN terms[i].en ELSE terms[i].tr]

\* `if lang in ["en", "both"]:` / `if lang in ["tr", "both"]:`
PoolInScope(lang, pool) == lang \in {pool, "both"}

\* en_matches / tr_matches: the process.extract result of one language
\* pool, empty when the pool is out of scope
PoolMatches(terms, query, lang, pool, limit) ==
    IF PoolInScope(lang, pool)
    THEN Extract(query, PoolChoices(terms, pool), Budget(lang, pool, limit))
    ELSE <<>>

\* sorted(candidates, key=lambda x: x[1], reverse=True): stable
RECURSIVE SortByScore(_)
SortByScore(candidates) ==
    IF candidates = <<>> THEN <<>>
    ELSE LET n    == Len(candidates)
             best == CHOOSE i \in 1 .. n :
                        \A j \in 1 .. n :
                            \/ candidates[i].score > candidates[j].score
                            \/ candidates[i].score = candidates[j].score /\ i <= j
             rest == [k \in 1 .. (n - 1) |->
                        IF k < best THEN candidates[k] ELSE candidates[k + 1]]
         IN  << candidates[best] >> \o SortByScore(rest)

\* `term_key = (term["en"], term["tr"])`
TermKey(term) == << term.en, term.tr >>

\* variant: the seen-set is never consulted
NotSeenAlways(term, seen) == TRUE

\* `if term_key not in seen:`
NotSeen(term, seen) == TermKey(term) \notin seen

\* the deduplicating loop over the sorted candidates, from the k-th on
RECURSIVE Dedup(_, _, _, _, _)
Dedup(sorted, limit, k, seen, results) ==
    IF k > Len(sorted) THEN results
    ELSE IF NotSeen(sorted[k].term, seen)
         THEN LET r == Append(results,
                              [term |-> sorted[k].term, score |-> << sorted[k].score >>])
              IN  IF LimitReached(r, limit) THEN r
                  ELSE Dedup(sorted, limit, k + 1,
                             seen \cup { TermKey(sorted[k].term) }, r)
         ELSE Dedup(sorted, limit, k + 1, seen, results)

\* the fuzzy branch: its locals at the return
FuzzySearch(terms, query, lang, limit, min_score) ==
    LET en == PoolMatches(terms, query, lang, "en", limit)
        tr == PoolMatches(terms, query, lang, "tr", limit)
        cs == Candidates(terms, en, min_score, 1) \o Candidates(terms, tr, min_score, 1)
    IN  [ en_matches |-> en,
          tr_matches |-> tr,
          candidates |-> cs,
          results    |-> Dedup(SortByScore(cs), limit, 1, {}, <<>>) ]

\* search_terms(terms, query, mode, lang, limit, min_score): the returned list
search_terms(terms, query, mode, lang, limit, min_score) ==
    LET branch == Branch(query, mode)
    IN  CASE branch = "empty"   -> <<>>
          [] branch = "exact"   -> ExactScan(terms, lower(query), lang, limit, 1, <<>>).results
          [] branch = "partial" -> PartialScan(terms, lower(query), lang, limit, 1, <<>>).results
          [] branch = "fuzzy"   -> FuzzySearch(terms, query, lang, limit, min_score).results
          [] OTHER              -> <<>>

\* ------------------------------------------------------------- state ----
VARIABLES
    terms,      \* the term collection handed to the call
    query, mode, lang, limit, min_score,   \* the other arguments
    pc,         \* "call": before the call, "returned": after its return
    results,    \* the list `results` of the call
    scanned,    \* records visited by the exact / partial loop
    en_matches, tr_matches,   \* the process.extract results of the fuzzy branch
    candidates  \* the list `candidates` of the fuzzy branch

args == << terms, query, mode, lang, limit, min_score >>

fuzzy_locals == << en_matches, tr_matches, candidates >>

vars == << args, pc, results, scanned, fuzzy_locals >>

Init ==
    /\ terms \in Collections
    /\ query \in Queries
    /\ mode \in ModeValues
    /\ lang \in LangValues
    /\ limit \in Limits
    /\ min_score \in MinScores
    /\ pc = "call"
    /\ results = <<>>
    /\ scanned = 0
    /\ en_matches = <<>>
    /\ tr_matches = <<>>
    /\ candidates = <<>>

\* `if not query: return []`
ReturnEmpty ==
    /\ pc = "call"
    /\ Branch(query, mode) = "empty"
    /\ pc' = "returned"
    /\ results' = <<>>
    /\ UNCHANGED << args, scanned, fuzzy_locals >>

\* `if mode == "exact":` ... `return results`
SearchExact ==
    /\ pc = "call"
    /\ Branch(query, mode) = "exact"
    /\ LET out == ExactScan(terms, lower(query), lang, limit, 1, <<>>)
       IN  /\ results' = out.results
           /\ scanned' = out.scanned
    /\ pc' = "returned"
    /\ UNCHANGED << args, fuzzy_locals >>

\* variant: the partial branch case-folds the records in place
SearchPartialFolding ==
    /\ pc = "call"
    /\ Branch(query, mode) = "partial"
    /\ LET out == PartialScan(terms, lower(query), lang, limit, 1, <<>>)
       IN  /\ results' = out.results
           /\ scanned' = out.scanned
    /\ terms' = [i \in 1 .. Len(terms) |->
                    [en |-> lower(terms[i].en), tr |-> lower(terms[i].tr)]]
    /\ pc' = "returned"
    /\ UNCHANGED << query, mode, lang, limit, min_score, fuzzy_locals >>

\* `elif mode == "partial":` ... `return results`
SearchPartial ==
    /\ pc = "call"
    /\ Branch(query, mode) = "partial"
    /\ LET out == PartialScan(terms, lower(query), lang, limit, 1, <<>>)
       IN  /\ results' = out.results
           /\ scanned' = out.scanned
    /\ pc' = "returned"
    /\ UNCHANGED << args, fuzzy_locals >>

\* `elif mode == "fuzzy":` ... `return results`
SearchFuzzy ==
    /\ pc = "call"
    /\ Branch(query, mode) = "fuzzy"
    /\ LET out == FuzzySearch(terms, query, lang, limit, min_score)
       IN  /\ en_matches' = out.en_matches
           /\ tr_matches' = out.tr_matches
           /\ candidates' = out.candidates
           /\ results' = out.results
    /\ pc' = "returned"
    /\ UNCHANGED << args, scanned >>

\* no branch taken: `return results` with the list still empty
SearchOther ==
    /\ pc = "call"
    /\ Branch(query, mode) = "none"
    /\ results' = <<>>
    /\ pc' = "returned"
    /\ UNCHANGED << args, scanned, fuzzy_locals >>

Next ==
    \/ ReturnEmpty
    \/ SearchExact
    \/ SearchPartial
    \/ SearchFuzzy
    \/ SearchOther

Spec == Init /\ [][Next]_vars

\* ------------------------------------------------------- properties ----
Returned == pc = "returned"

Range(s) == { s[i] : i \in 1 .. Len(s) }

Min(x, y) == IF x <= y THEN x ELSE y

\* the fields of a record the language scope l covers
FieldsInScope(term, l) ==
    (IF l \in {"en", "both"} THEN { term.en } ELSE {})
        \cup (IF l \in {"tr", "both"} THEN { term.tr } ELSE {})

\* a record has a field in scope equal to / containing the query, case folded
EqualsInScope(term) ==
    \E f \in FieldsInScope(term, lang) : lower(f) = lower(query)

ContainsInScope(term) ==
    \E f \in FieldsInScope(term, lang) : Contains(lower(query), lower(f))

\* C1: in every mode, scope, query, collection and positive limit, the
\* returned list has at most `limit` entries.
Thm_C1_LengthAtMostLimit ==
    Returned => Len(results) <= limit

\* C1 witness: a partial search that stopped at the cap although more
\* records match than the cap admits.
Wit_C1_CapReached ==
    /\ Returned
    /\ mode = "partial"
    /\ Len(results) = limit
    /\ Cardinality({ i \in 1 .. Len(terms) : ContainsInScope(terms[i]) }) > limit

\* C2: for a non-empty query in mode exact, every result is a record of the
\* collection with a field in the language scope whose lower-cased value
\* equals the lower-cased query, and carries the score 100.
Thm_C2_ExactResults ==
    (Returned /\ mode = "exact" /\ query # <<>>) =>
        \A k \in 1 .. Len(results) :
            /\ results[k].term \in Range(terms)
            /\ EqualsInScope(results[k].term)
            /\ results[k].score = << 100 * ScoreScale >>

\* C2 witness: an exact search in scope tr with a query in another letter
\* case than the field, that returns a record and leaves out a record whose
\* en field alone equals the query.
Wit_C2_ExactScopeTr ==
    /\ Returned
    /\ mode = "exact"
    /\ lang = "tr"
    /\ query # lower(query)
    /\ results # <<>>
    /\ \E i \in 1 .. Len(terms) :
            /\ lower(terms[i].en) = lower(query)
            /\ \A k \in 1 .. Len(results) : results[k].term # terms[i]

\* C3: for a non-empty query in mode partial, every result is a record of
\* the collection with a field in the language scope whose lower-cased value
\* contains the lower-cased query, and carries no score, whatever min_score.
Thm_C3_PartialResults ==
    (Returned /\ mode = "partial" /\ query # <<>>) =>
        \A k \in 1 .. Len(results) :
            /\ results[k].term \in Range(terms)
            /\ ContainsInScope(results[k].term)
            /\ results[k].score = <<>>

\* C3 witness: a partial search under the highest min_score that returns a
\* record whose field properly contains the query, and skips a record.
Wit_C3_PartialProperSubstring ==
    /\ Returned
    /\ mode = "partial"
    /\ min_score = 100 * ScoreScale
    /\ \E k \in 1 .. Len(results) : ~EqualsInScope(results[k].term)
    /\ \E i \in 1 .. Len(terms) : ~ContainsInScope(terms[i])

\* C4: in mode fuzzy every result scores at least min_score, the scores are
\* non-increasing along the list, and no (english, turkish) pair is listed
\* twice.
Thm_C4_FuzzyResults ==
    (Returned /\ mode = "fuzzy") =>
        /\ \A k \in 1 .. Len(results) :
                /\ Len(results[k].score) = 1
                /\ results[k].score[1] >= min_score
        /\ \A k \in 1 .. (Len(results) - 1) :
                results[k].score[1] >= results[k + 1].score[1]
        /\ \A j, k \in 1 .. Len(results) :
                j # k => << results[j].term.en, results[j].term.tr >>
                            # << results[k].term.en, results[k].term.tr >>

\* C4 witness: a fuzzy search over both languages where a candidate fell
\* below min_score, the merged candidates were out of order before the
\* sort, a record held twice in the collection was listed once, and two
\* results with different scores came back.
Wit_C4_FilterSortDedup ==
    /\ Returned
    /\ mode = "fuzzy"
    /\ lang = "both"
    /\ min_score > 0
    /\ Len(en_matches) + Len(tr_matches) > Len(candidates)
    /\ candidates # SortByScore(candidates)
    /\ Len(results) = 2
    /\ results[1].score # results[2].score
    /\ \E i, j \in 1 .. Len(terms) :
            i # j /\ terms[i] = terms[j] /\ terms[i] = results[1].term

\* C5 (as claimed): a mode outside exact / partial / fuzzy, or a scope
\* outside en / tr / both, is rejected with an error: the call never returns
\* a result list for such a value (stated for the calls that get past the
\* empty-query guard).
Cex_C5_InvalidValueRejected ==
    (query # <<>> /\ (mode \notin Modes \/ lang \notin Langs)) => ~Returned

\* C5 (amended): a call with a mode outside exact / partial / fuzzy, or a
\* scope outside en / tr / both, is not rejected: it returns the empty list.
Thm_C5_InvalidValueReturnsEmpty ==
    (Returned /\ (mode \notin Modes \/ lang \notin Langs)) => results = <<>>

\* C5 witness: a call with an unknown mode, a valid scope and a query that
\* a record of the collection contains, which returned.
Wit_C5_UnknownModeReturned ==
    /\ Returned
    /\ mode \notin Modes
    /\ lang \in Langs
    /\ query # <<>>
    /\ \E i \in 1 .. Len(terms) : ContainsInScope(terms[i])

\* C6: for every mode, scope and limit, what the call returns when the query
\* is the empty string, and when the collection is empty, is the empty list
\* (the call has no raising path: every call reaches its return).
Thm_C6_DegenerateInputsReturnEmpty ==
    (Returned /\ (query = <<>> \/ terms = <<>>)) => results = <<>>

\* C6 witness: a partial search with the empty query, which every record
\* contains, over a non-empty collection, which returned.
Wit_C6_EmptyQueryReturned ==
    /\ Returned
    /\ query = <<>>
    /\ mode = "partial"
    /\ lang \in Langs
    /\ terms # <<>>

\* C7 (as claimed): comparison is case-insensitive in every mode, fuzzy
\* included: a query that differs from the call's only in letter case
\* yields the same result list against the same collection.
Cex_C7_CaseInsensitiveEveryMode ==
    Returned =>
        \A q \in Queries :
            lower(q) = lower(query) =>
                search_terms(terms, q, mode, lang, limit, min_score) = results

\* the records that match in mode exact / partial, in stored order
MatchesInScope(term) ==
    IF mode = "exact" THEN EqualsInScope(term) ELSE ContainsInScope(term)

Matching == SelectSeq(terms, MatchesInScope)

\* the position in the collection of the n-th matching record
NthMatch(n) ==
    CHOOSE i \in 1 .. Len(terms) :
        /\ MatchesInScope(terms[i])
        /\ Cardinality({ j \in 1 .. i : MatchesInScope(terms[j]) }) = n

\* C8: exact and partial mode return exactly the first min(limit, number of
\* matching records) matching records, in stored order, one entry per
\* matching record, and the scan stops at the limit-th match.
Thm_C8_FirstNMatches ==
    (Returned /\ mode \in {"exact", "partial"} /\ query # <<>>) =>
        /\ Len(results) = Min(limit, Len(Matching))
        /\ \A k \in 1 .. Len(results) : results[k].term = Matching[k]
        /\ scanned = IF Len(Matching) >= limit THEN NthMatch(limit) ELSE Len(terms)

\* C8 witness: a partial search over both languages that skipped a record
\* matching nothing, returned a record matching through both its fields
\* once, and stopped before the end of a collection holding a further match.
Wit_C8_EarlyStop ==
    /\ Returned
    /\ mode = "partial"
    /\ lang = "both"
    /\ Len(results) = limit
    /\ scanned < Len(terms)
    /\ MatchesInScope(terms[Len(terms)])
    /\ \E i \in 1 .. scanned : ~MatchesInScope(terms[i])
    /\ \E k \in 1 .. Len(results) :
            /\ Contains(lower(query), lower(results[k].term.en))
            /\ Contains(lower(query), lower(results[k].term.tr))

\* C9: in mode fuzzy a language pool is asked for limit matches when it is
\* the sole scope and for limit \div 2 when the scope is both, so that with
\* scope both the result has at most 2 * (limit \div 2) entries: at most
\* limit - 1 for an odd limit.
Thm_C9_FuzzyBudget ==
    (Returned /\ mode = "fuzzy" /\ query # <<>>) =>
        /\ lang = "en" =>
                /\ Len(en_matches) = Min(limit, Len(terms))
                /\ tr_matches = <<>>
        /\ lang = "tr" =>
                /\ Len(tr_matches) = Min(limit, Len(terms))
                /\ en_matches = <<>>
        /\ lang = "both" =>
                /\ Len(en_matches) = Min(limit \div 2, Len(terms))
                /\ Len(tr_matches) = Min(limit \div 2, Len(terms))
                /\ Len(results) <= 2 * (limit \div 2)
                /\ limit % 2 = 1 => Len(results) <= limit - 1

\* C9 witness: a fuzzy search over both languages with the odd limit 3 that
\* returned 2 results from a collection of 3 different records, each of
\* which scores at least min_score in one language.
Wit_C9_OddLimitOneShort ==
    /\ Returned
    /\ mode = "fuzzy"
    /\ lang = "both"
    /\ limit = 3
    /\ Len(results) = 2
    /\ Cardinality(Range(terms)) = 3
    /\ \A i \in 1 .. Len(terms) :
            \/ WRatio(query, terms[i].en) >= min_score
            \/ WRatio(query, terms[i].tr) >= min_score

\* the score of the i-th record in the pool of a single-language scope
ScopeScore(i) ==
    WRatio(query, IF lang = "tr" THEN terms[i].tr ELSE terms[i].en)

\* two records of the collection score equally, at least min_score, in a
\* language pool of the scope
TiedPair ==
    \E pool \in {"en", "tr"} :
        /\ lang \in {pool, "both"}
        /\ \E i, j \in 1 .. Len(terms) :
                /\ i < j
                /\ WRatio(query, PoolChoices(terms, pool)[i])
                        = WRatio(query, PoolChoices(terms, pool)[j])
                /\ WRatio(query, PoolChoices(terms, pool)[i]) >= min_score

\* the best score a record reaches in a language pool of the scope
BestScore ==
    LET all == { WRatio(query, PoolChoices(terms, pool)[i]) :
                    pool \in { p \in {"en", "tr"} : lang \in {p, "both"} },
                    i \in 1 .. Len(terms) }
    IN  CHOOSE x \in all : \A y \in all : x >= y

\* in a single-language scope: the earliest record, in stored order, among
\* the best scoring
FirstBest ==
    CHOOSE i \in 1 .. Len(terms) :
        /\ ScopeScore(i) = BestScore
        /\ \A j \in 1 .. (i - 1) : ScopeScore(j) < BestScore

\* C10 (as claimed): in mode fuzzy with limit 1, when two records score
\* equally and at least min_score against a non-empty query, exactly one
\* result is returned, the first of the best after the descending sort, in
\* scope en, tr and both.
Cex_C10_TieOneResultEveryScope ==
    (Returned /\ mode = "fuzzy" /\ limit = 1 /\ lang \in Langs /\ query # <<>>
        /\ TiedPair) =>
        /\ Len(results) = 1
        /\ results[1].score = << BestScore >>
        /\ lang \in {"en", "tr"} => results[1].term = terms[FirstBest]

\* C10 (amended): in mode fuzzy with limit 1, when two records score equally
\* and at least min_score against a non-empty query: in scope en and in
\* scope tr exactly one result is returned, the best scoring record, the
\* earliest in stored order among equal best scores; in scope both no
\* result is returned, each language pool being asked for 1 \div 2 = 0
\* matches.
Thm_C10_TieOneResultSingleScope ==
    (Returned /\ mode = "fuzzy" /\ limit = 1 /\ query # <<>> /\ TiedPair) =>
        /\ lang \in {"en", "tr"} =>
                /\ Len(results) = 1
                /\ results[1].score = << BestScore >>
                /\ results[1].term = terms[FirstBest]
        /\ lang = "both" => results = <<>>

\* C10 witness: a fuzzy search in scope en with limit 1 in which two
\* different records tie for the best score, at least min_score, and the
\* earlier of the two is the one result.
Wit_C10_TopTieFirstWins ==
    /\ Returned
    /\ mode = "fuzzy"
    /\ lang = "en"
    /\ limit = 1
    /\ Len(results) = 1
    /\ \E i, j \in 1 .. Len(terms) :
            /\ i < j
            /\ terms[i] # terms[j]
            /\ ScopeScore(i) = ScopeScore(j)
            /\ ScopeScore(i) >= min_score
            /\ \A k \in 1 .. Len(terms) : ScopeScore(k) <= ScopeScore(i)
            /\ results[1].term = terms[i]

\* how many entries of the result list / records of the collection hold
\* the (english, turkish) pair `key`
ResultCount(key) ==
    Cardinality({ k \in 1 .. Len(results) :
                    << results[k].term.en, results[k].term.tr >> = key })

RecordCount(key) ==
    Cardinality({ i \in 1 .. Len(terms) : << terms[i].en, terms[i].tr >> = key })

PoolScore(pool, i) ==
    WRatio(query, IF pool = "en" THEN terms[i].en ELSE terms[i].tr)

\* the matches budget of a pool: limit for a single scope, limit \div 2 for both
PoolBudget == IF lang = "both" THEN limit \div 2 ELSE limit

\* the records of a pool scoring at least min_score
Passing(pool) == { i \in 1 .. Len(terms) : PoolScore(pool, i) >= min_score }

\* how many records of S rank before record i in the pool: higher score
\* first, stored order among equal scores
RankedBefore(pool, S, i) ==
    Cardinality({ j \in S :
                    \/ PoolScore(pool, j) > PoolScore(pool, i)
                    \/ PoolScore(pool, j) = PoolScore(pool, i) /\ j < i })

\* the PoolBudget best records of S in the pool, best first
TopOf(pool, S) ==
    [k \in 1 .. Min(PoolBudget, Cardinality(S)) |->
        CHOOSE i \in S : RankedBefore(pool, S, i) = k - 1]

\* a sequence of records of a pool as candidate entries
AsCandidates(pool, idxs) ==
    [k \in 1 .. Len(idxs) |->
        [term |-> terms[idxs[k]], score |-> PoolScore(pool, idxs[k])]]

\* the contribution of a pool when the records below min_score are discarded
\* before the ranking (none when the pool is out of scope)
FilteredFirst(pool) ==
    IF lang \in {pool, "both"}
    THEN AsCandidates(pool, TopOf(pool, Passing(pool)))
    ELSE <<>>

\* ... and when all records are ranked and the best PoolBudget filtered
PassesFilter(entry) == entry.score >= min_score

FilteredAfter(pool) ==
    IF lang \in {pool, "both"}
    THEN SelectSeq(AsCandidates(pool, TopOf(pool, 1 .. Len(terms))), PassesFilter)
    ELSE <<>>

\* the process.extract result of a pool, as held by the call
HeldMatches(pool) == IF pool = "en" THEN en_matches ELSE tr_matches

\* C13: in mode fuzzy each language pool contributes the best records, up
\* to its budget, among those scoring at least min_score; no record of the
\* pool left out with a score of at least min_score scores higher than one
\* the pool contributed; and the contribution is the one obtained by ranking
\* all records and filtering the best by min_score afterwards.
Thm_C13_FilterBeforeRanking ==
    (Returned /\ mode = "fuzzy" /\ query # <<>>) =>
        /\ candidates = FilteredFirst("en") \o FilteredFirst("tr")
        /\ candidates = FilteredAfter("en") \o FilteredAfter("tr")
        /\ \A pool \in {"en", "tr"} :
                \A k \in 1 .. Len(HeldMatches(pool)) :
                    \A i \in Passing(pool) :
                        \/ \E n \in 1 .. Len(HeldMatches(pool)) :
                                HeldMatches(pool)[n].idx = i
                        \/ HeldMatches(pool)[k].score < min_score
                        \/ lang \notin {pool, "both"}
                        \/ PoolScore(pool, i) <= HeldMatches(pool)[k].score

\* C13 witness: a fuzzy search over both languages where the en pool left
\* out a record scoring at least min_score, for want of budget, and the
\* best of the tr pool fell below min_score.
Wit_C13_OmittedAndFiltered ==
    /\ Returned
    /\ mode = "fuzzy"
    /\ lang = "both"
    /\ min_score > 0
    /\ candidates # <<>>
    /\ Cardinality(Passing("en")) > Len(en_matches)
    /\ tr_matches # <<>>
    /\ \A k \in 1 .. Len(tr_matches) : tr_matches[k].score < min_score

====
